---------------------------- MODULE Spec2Model ----------------------------
(***************************************************************************)
(* A model of the ShivyC parser (src/parser.py).                           *)
(*                                                                         *)
(* A token is a record [kind, pos]: its token kind and its position in the *)
(* token list (the position stands for the Token object's identity and     *)
(* source location).  Python indices are 0-based and are kept 0-based      *)
(* here; At(toks, i) reads tokens[i] and Slice(toks, i) is tokens[i:].     *)
(*                                                                         *)
(* A recognizer expect_*(tokens, index) returns the record                 *)
(*   [node, index, errs]                                                   *)
(* where (node, index) is the tuple the Python method returns and errs is  *)
(* the sequence of entries the call appended to self.errors, in order.     *)
(***************************************************************************)
EXTENDS Integers, Sequences, FiniteSets, TLC

VARIABLES tokens,   \* the token list handed to the call in progress / last made
          start,    \* the index argument of the last recognizer call
          errors,   \* Parser.errors: sequence of [err, index]
          outcome,  \* what the last call returned or raised
          calls     \* number of calls made on this Parser object

vars == <<tokens, start, errors, outcome, calls>>

---------------------------------------------------------------------------
(* Token kinds (token_kinds module) and tokens *)

KindsBefore == <<"int_kw", "main", "open_paren", "close_paren", "open_brack">>

TokenKinds == {"int_kw", "main", "open_paren", "close_paren", "open_brack",
               "close_brack", "return_kw", "semicolon", "number",
               "identifier", "plus", "star", "equals"}

\* The token list the lexer produces for a sequence of kinds.
Lex(kinds) == [j \in 1..Len(kinds) |-> [kind |-> kinds[j], pos |-> j - 1]]

At(toks, i) == toks[i + 1]

Slice(toks, i) == SubSeq(toks, i + 1, Len(toks))

\* The element of a one-element set: Only({F(x) : x \in {e}}) is F(e) with e
\* evaluated once.
Only(S) == CHOOSE x \in S : TRUE

---------------------------------------------------------------------------
(* AST nodes (ast module constructors) *)

None == [type |-> "None"]

NumberNode(tok) == [type |-> "Number", tok |-> tok]

IdentifierNode(tok) == [type |-> "Identifier", tok |-> tok]

BinaryOperatorNode(left, op, right) ==
    [type |-> "BinaryOperator", left |-> left, op |-> op, right |-> right]

ReturnNode(expr) == [type |-> "Return", expr |-> expr]

ExprStatementNode(expr) == [type |-> "ExprStatement", expr |-> expr]

DeclarationNode(name) == [type |-> "Declaration", name |-> name]

MainNode(nodes) == [type |-> "Main", nodes |-> nodes]

\* isinstance(x, Token) / isinstance(x, ast.Node)
IsToken(x) == "kind" \in DOMAIN x

IsNode(x) == "type" \in DOMAIN x /\ x # None

---------------------------------------------------------------------------
(* Utility functions of the parser *)

AT == 1

GOT == 2

AFTER == 3

match_tokens(toks, kinds_expected) ==
    IF Len(toks) < Len(kinds_expected) THEN 0
    ELSE IF \A j \in 1..Len(kinds_expected) : kinds_expected[j] = toks[j].kind
         THEN Len(kinds_expected)
         ELSE 0

match_token(toks, kind_expected) == match_tokens(toks, <<kind_expected>>)

\* errors.token_error(template, token) / CompilerError(text): the message, the
\* style of the template and the token it is rendered against.
CompilerError(message, style, tok) ==
    [msg |-> message, style |-> style, tok |-> tok]

NoToken == [kind |-> "none", pos |-> -1]

make_error(message, index, toks, message_type) ==
    IF Len(toks) = 0
    THEN CompilerError(message, "at beginning of source", NoToken)
    ELSE LET idx == IF index >= Len(toks) THEN Len(toks)
                    ELSE IF index <= 0 THEN 0 ELSE index
             mt  == IF index >= Len(toks) THEN AFTER
                    ELSE IF index <= 0 /\ message_type = AFTER THEN GOT
                    ELSE message_type
         IN  IF mt = AT THEN CompilerError(message, "at", At(toks, idx))
             ELSE IF mt = GOT THEN CompilerError(message, "got", At(toks, idx))
             ELSE IF mt = AFTER
                  THEN CompilerError(message, "after", At(toks, idx - 1))
             ELSE CompilerError("ValueError", "unknown", NoToken)

\* A recognizer's return value together with what it appended to self.errors.
Result(node, index, errs) == [node |-> node, index |-> index, errs |-> errs]

add_error(message, index, toks, message_type) ==
    Result(None, 0,
           <<[err |-> make_error(message, index, toks, message_type),
              index |-> index]>>)

---------------------------------------------------------------------------
(* Recognizers *)

\* expect_semicolon returning the index of the semicolon instead of the one
\* after it.
expect_semicolon_no_advance(node, toks, index) ==
    IF match_token(Slice(toks, index), "semicolon") # 0
    THEN Result(node, index, <<>>)
    ELSE add_error("expected semicolon", index, toks, AFTER)

expect_semicolon(node, toks, index) ==
    IF match_token(Slice(toks, index), "semicolon") # 0
    THEN Result(node, index + 1, <<>>)
    ELSE add_error("expected semicolon", index, toks, AFTER)

binary_operators == ("plus" :> 11) @@ ("star" :> 12) @@ ("equals" :> 1)

assignment_operators == {"equals"}

StackItem(item, length) == [item |-> item, length |-> length]

\* The precedence test with >= for >: an operator of equal precedence holds
\* the reduction back as well.
HigherOrEqualPrecedenceNext(toks, i, opkind) ==
    /\ i < Len(toks)
    /\ At(toks, i).kind \in DOMAIN binary_operators
    /\ binary_operators[At(toks, i).kind] >= binary_operators[opkind]

\* The two conditions that hold back a binary reduction (lines 170-180).
HigherPrecedenceNext(toks, i, opkind) ==
    /\ i < Len(toks)
    /\ At(toks, i).kind \in DOMAIN binary_operators
    /\ binary_operators[At(toks, i).kind] > binary_operators[opkind]

BothAssignment(toks, i, opkind) ==
    /\ i < Len(toks)
    /\ opkind \in assignment_operators
    /\ At(toks, i).kind \in assignment_operators

\* The guard of the binary reduction (lines 164-180).
CanReduceBinary(toks, stack, i) ==
    LET n == Len(stack) IN
    /\ n >= 3
    /\ IsNode(stack[n].item)
    /\ IsToken(stack[n - 1].item)
    /\ stack[n - 1].item.kind \in DOMAIN binary_operators
    /\ IsNode(stack[n - 2].item)
    /\ ~ HigherPrecedenceNext(toks, i, stack[n - 1].item.kind)
    /\ ~ BothAssignment(toks, i, stack[n - 1].item.kind)

\* The while loop of expect_expression (lines 149-204): the stack and the
\* scan position when it breaks.
RECURSIVE ScanLoop(_, _, _)
ScanLoop(toks, stack, i) ==
    LET n == Len(stack) IN
    IF n > 0 /\ IsToken(stack[n].item) /\ stack[n].item.kind = "number"
    THEN Only({ScanLoop(toks, s, i) : s \in
                 {[stack EXCEPT
                     ![n] = StackItem(NumberNode(stack[n].item), 1)]}})
    ELSE IF n > 0 /\ IsToken(stack[n].item)
                  /\ stack[n].item.kind = "identifier"
    THEN Only({ScanLoop(toks, s, i) : s \in
                 {[stack EXCEPT
                     ![n] = StackItem(IdentifierNode(stack[n].item), 1)]}})
    ELSE IF CanReduceBinary(toks, stack, i)
    THEN LET left_expr  == stack[n - 2]
             right_expr == stack[n]
             operator   == stack[n - 1]
         IN  Only({ScanLoop(toks, s, i) : s \in
                     {Append(SubSeq(stack, 1, n - 3),
                             StackItem(BinaryOperatorNode(left_expr.item,
                                                          operator.item,
                                                          right_expr.item),
                                       left_expr.length + operator.length
                                         + right_expr.length))}})
    ELSE IF i = Len(toks) THEN [stack |-> stack, i |-> i]
    ELSE IF /\ At(toks, i).kind # "number"
            /\ At(toks, i).kind # "identifier"
            /\ At(toks, i).kind \notin DOMAIN binary_operators
         THEN [stack |-> stack, i |-> i]
    ELSE Only({ScanLoop(toks, s[1], s[2]) : s \in
                 {<<Append(stack, StackItem(At(toks, i), 1)), i + 1>>}})

\* expect_expression succeeding only when the stack collapsed to one node.
expect_expression_collapsed(toks, index) ==
    Only({IF Len(stack) = 1 /\ IsNode(stack[1].item)
          THEN Result(stack[1].item, index + stack[1].length, <<>>)
          ELSE add_error("expected expression", index, toks, GOT)
          : stack \in {ScanLoop(toks, <<>>, index).stack}})

expect_expression(toks, index) ==
    Only({IF stack # <<>> /\ IsNode(stack[1].item)
          THEN Result(stack[1].item, index + stack[1].length, <<>>)
          ELSE add_error("expected expression", index, toks, GOT)
          : stack \in {ScanLoop(toks, <<>>, index).stack}})

\* node, index = self.expect_expression(tokens, index); if not node: return
\* (None, 0); return self.expect_semicolon(make(node), tokens, index)
\* (lines 109-112 with ReturnNode, 117-121 with ExprStatementNode).
ThenSemicolon(e, toks, kind) ==
    IF e.node = None THEN Result(None, 0, e.errs)
    ELSE Only({Result(s.node, s.index, e.errs \o s.errs) : s \in
                 {expect_semicolon(IF kind = "Return" THEN ReturnNode(e.node)
                                   ELSE ExprStatementNode(e.node),
                                   toks, e.index)}})

expect_return(toks, index) ==
    IF match_token(Slice(toks, index), "return_kw") # 0
    THEN Only({ThenSemicolon(e, toks, "Return") : e \in
                 {expect_expression(toks, index + 1)}})
    ELSE add_error("expected return keyword", index, toks, GOT)

expect_expr_statement(toks, index) ==
    Only({ThenSemicolon(e, toks, "ExprStatement") : e \in
            {expect_expression(toks, index)}})

\* The second alternative of expect_statement (lines 87-90), after
\* expect_return returned r without a node.
OrExprStatement(r, toks, index) ==
    Only({IF x.node # None THEN Result(x.node, x.index, r.errs \o x.errs)
          ELSE Result(None, 0, r.errs \o x.errs)
          : x \in {expect_expr_statement(toks, index)}})

expect_statement(toks, index) ==
    Only({IF r.node # None THEN r ELSE OrExprStatement(r, toks, index)
          : r \in {expect_return(toks, index)}})

expect_declaration(toks, index) ==
    IF match_token(Slice(toks, index), "int_kw") # 0
    THEN IF match_token(Slice(toks, index + 1), "identifier") # 0
         THEN expect_semicolon(DeclarationNode(At(toks, index + 1)), toks,
                               index + 2)
         ELSE add_error("expected identifier", index + 1, toks, AFTER)
    ELSE add_error("expected type name", index, toks, GOT)

\* The loop of expect_main without the declaration alternative.
StatementOnly(toks, index) == expect_statement(toks, index)

\* One pass of the loop of expect_main (lines 67-71): the node found at
\* index by expect_statement or else expect_declaration, with the errors
\* both appended.
StatementOrDeclaration(toks, index) ==
    Only({IF s.node # None THEN s
          ELSE Only({Result(d.node, d.index, s.errs \o d.errs) : d \in
                       {expect_declaration(toks, index)}})
          : s \in {expect_statement(toks, index)}})

\* The statement/declaration loop of expect_main (lines 65-74): the nodes
\* collected, the index reached and the errors appended when it breaks.
\* acc = [nodes, index, errs].
RECURSIVE BodyLoop(_, _)
BodyLoop(toks, acc) ==
    Only({IF r.node = None
          THEN [nodes |-> acc.nodes, index |-> acc.index,
                errs |-> acc.errs \o r.errs]
          ELSE Only({BodyLoop(toks, a) : a \in
                       {[nodes |-> Append(acc.nodes, r.node),
                         index |-> r.index,
                         errs  |-> acc.errs \o r.errs]}})
          : r \in {StatementOrDeclaration(toks, acc.index)}})

\* expect_main after the prologue matched (lines 65-81); b is what the loop
\* left.
CloseMain(toks, b) ==
    IF match_token(Slice(toks, b.index), "close_brack") # 0
    THEN Result(MainNode(b.nodes), b.index + 1, b.errs)
    ELSE Result(None, 0,
                b.errs \o add_error("expected closing brace", b.index, toks,
                                    GOT).errs)

\* expect_main recording the prologue error at the first token that differs
\* from the prologue instead of at the start index.
expect_main_error_at_divergence(toks, index) ==
    Only({IF match_start = 0
          THEN add_error("expected main function starting",
                         index - 1 + (CHOOSE j \in 1..5 :
                            /\ index + j > Len(toks)
                                 \/ toks[index + j].kind # KindsBefore[j]
                            /\ \A i \in 1..(j - 1) :
                                 /\ index + i <= Len(toks)
                                 /\ toks[index + i].kind = KindsBefore[i]),
                         toks, AT)
          ELSE Only({CloseMain(toks, b) : b \in
                       {BodyLoop(toks, [nodes |-> <<>>,
                                        index |-> index + match_start,
                                        errs  |-> <<>>])}})
          : match_start \in {match_tokens(Slice(toks, index), KindsBefore)}})

expect_main(toks, index) ==
    Only({IF match_start = 0
          THEN add_error("expected main function starting", index, toks, AT)
          ELSE Only({CloseMain(toks, b) : b \in
                       {BodyLoop(toks, [nodes |-> <<>>,
                                        index |-> index + match_start,
                                        errs  |-> <<>>])}})
          : match_start \in {match_tokens(Slice(toks, index), KindsBefore)}})

---------------------------------------------------------------------------
(* The top-level driver *)

\* sorted(self.errors, key=lambda error: error[1]), as the sequence of the
\* entries' positions in self.errors.  Python's sort is stable: an entry goes
\* after every entry whose key is not greater.
RECURSIVE InsertByIndex(_, _, _)
InsertByIndex(errs, sorted, p) ==
    IF sorted = <<>> THEN <<p>>
    ELSE IF errs[sorted[Len(sorted)]].index <= errs[p].index
         THEN Append(sorted, p)
         ELSE Only({Append(InsertByIndex(errs, rest, p), sorted[Len(sorted)])
                    : rest \in {SubSeq(sorted, 1, Len(sorted) - 1)}})

RECURSIVE SortedByIndex(_, _)
SortedByIndex(errs, n) ==
    IF n = 0 THEN <<>>
    ELSE Only({InsertByIndex(errs, sorted, n) : sorted \in
                 {SortedByIndex(errs, n - 1)}})

\* The earliest entry with the greatest index instead of the latest.
SelectErrorEarliest(errs) ==
    IF errs = <<>> THEN 0
    ELSE CHOOSE k \in 1..Len(errs) :
           /\ \A j \in 1..Len(errs) : errs[j].index <= errs[k].index
           /\ \A j \in 1..(k - 1) : errs[j].index < errs[k].index

\* sorted(self.errors, ...)[-1]: the position in self.errors of the entry
\* whose error is raised (line 45); 0 stands for the IndexError of an empty
\* list.
SelectError(errs) ==
    IF errs = <<>> THEN 0
    ELSE Only({sorted[Len(sorted)] : sorted \in
                 {SortedByIndex(errs, Len(errs))}})

NoError == [msg |-> "none", style |-> "none", tok |-> NoToken]

IndexError == [msg |-> "IndexError", style |-> "none", tok |-> NoToken]

\* What a call leaves behind: fn is the method called, (node, index) the
\* tuple the recognizer returned (for parse: what expect_main returned),
\* raised/error the exception parse raised, picked the position in
\* self.errors of the entry parse selected, base the length of self.errors
\* when the call began, stack the expression stack when scanning stopped.
Outcome(fn, node, index, raised, error, picked, base, stack) ==
    [fn |-> fn, node |-> node, index |-> index, raised |-> raised,
     error |-> error, picked |-> picked, base |-> base, stack |-> stack]

NotCalled == Outcome("none", None, 0, FALSE, NoError, 0, 0, <<>>)

\* parse without the check for tokens left after the main function.
ParseOutcomeNoLeftoverCheck(toks, errs) ==
    Only({IF m.node = None
          THEN Only({[errors  |-> errs \o m.errs,
                      outcome |-> Outcome("parse", None, m.index, TRUE,
                                          IF k = 0 THEN IndexError
                                          ELSE (errs \o m.errs)[k].err,
                                          k, Len(errs), <<>>)]
                     : k \in {SelectError(errs \o m.errs)}})
          ELSE [errors  |-> errs \o m.errs,
                outcome |-> Outcome("parse", m.node, m.index, FALSE, NoError,
                                    0, Len(errs), <<>>)]
          : m \in {expect_main(toks, 0)}})

\* parse (lines 34-50) on a Parser whose self.errors is errs: the new
\* self.errors and the outcome.
ParseOutcome(toks, errs) ==
    Only({IF m.node = None
          THEN Only({[errors  |-> errs \o m.errs,
                      outcome |-> Outcome("parse", None, m.index, TRUE,
                                          IF k = 0 THEN IndexError
                                          ELSE (errs \o m.errs)[k].err,
                                          k, Len(errs), <<>>)]
                     : k \in {SelectError(errs \o m.errs)}})
          ELSE IF Slice(toks, m.index) # <<>>
          THEN [errors  |-> errs \o m.errs,
                outcome |-> Outcome("parse", m.node, m.index, TRUE,
                                    make_error("unexpected token", m.index,
                                               toks, AT),
                                    0, Len(errs), <<>>)]
          ELSE [errors  |-> errs \o m.errs,
                outcome |-> Outcome("parse", m.node, m.index, FALSE, NoError,
                                    0, Len(errs), <<>>)]
          : m \in {expect_main(toks, 0)}})

---------------------------------------------------------------------------
(* Bounds and inputs *)

MaxCalls == 2

MaxStmtOps == 2

MaxOps == 4

MaxLen == 4

Leaves == {"number", "identifier"}

Operators == {"plus", "star", "equals"}

SeqsUpTo(S, n) == UNION {[1..m -> S] : m \in 0..n}

Prefixes(P) == UNION {{SubSeq(p, 1, n) : n \in 0..Len(p)} : p \in P}

\* Operator-separated leaves with exactly k operators; the first leaf is
\* `first`, the others `rest`.
RECURSIVE Chains(_, _, _)
Chains(first, rest, k) ==
    IF k = 0 THEN {<<first>>}
    ELSE {c \o <<op, rest>> : <<c, op>> \in Chains(first, rest, k - 1) \X Operators}

ChainsUpTo(first, rest, n) == UNION {Chains(first, rest, k) : k \in 0..n}

\* Statements and programs of the supported grammar.
StmtExprs == ChainsUpTo("identifier", "number", MaxStmtOps)

Stmts == {<<"return_kw">> \o e \o <<"semicolon">> : e \in StmtExprs}
         \cup {e \o <<"semicolon">> : e \in StmtExprs}
         \cup {<<"int_kw", "identifier", "semicolon">>}

OneStmtPrograms ==
    {KindsBefore \o s \o <<"close_brack">> : s \in Stmts \cup {<<>>}}

ValidPrograms ==
    {KindsBefore \o s[1] \o s[2] \o <<"close_brack">> :
        s \in (Stmts \cup {<<>>}) \X (Stmts \cup {<<>>})}

Replaced(P) ==
    UNION {{[p EXCEPT ![x[1]] = x[2]] : x \in (1..Len(p)) \X TokenKinds}
           : p \in P}

Trailing(P) == {Append(x[1], x[2]) : x \in P \X TokenKinds}

\* Token lists handed to a single parse: valid programs, their truncations,
\* one-token corruptions and stray trailing tokens.
Programs ==
    ValidPrograms \cup Prefixes(OneStmtPrograms) \cup Replaced(OneStmtPrograms)
    \cup Trailing(OneStmtPrograms)

\* Token lists handed to a recognizer: expressions (well formed, with and
\* without a following semicolon, and arbitrary short ones), truncated
\* programs and corrupted prologues.
ExprAlphabet == Leaves \cup Operators \cup {"semicolon"}

WellFormedExprs ==
    ChainsUpTo("identifier", "number", MaxOps)
    \cup ChainsUpTo("number", "identifier", MaxOps)

RecognizerInputs ==
    WellFormedExprs \cup {Append(e, "semicolon") : e \in WellFormedExprs}
    \cup SeqsUpTo(ExprAlphabet, MaxLen)
    \cup Prefixes(OneStmtPrograms)
    \cup Replaced({KindsBefore \o <<"close_brack">>})

\* Token lists of a session that re-uses one Parser object: the truncations
\* of `int main() { return 4; } x` and of `int main() { int x; x = 1 + 2; }`.
SessionInputs ==
    Prefixes({KindsBefore \o <<"return_kw", "number", "semicolon",
                               "close_brack", "identifier">>,
              KindsBefore \o <<"int_kw", "identifier", "semicolon",
                               "identifier", "equals", "number", "plus",
                               "number", "semicolon", "close_brack">>})

---------------------------------------------------------------------------
(* The state machine *)

\* Parser.__init__ (lines 31-32)
Init ==
    /\ tokens = <<>>
    /\ start = 0
    /\ errors = <<>>
    /\ outcome = NotCalled
    /\ calls = 0

\* Parser.parse(tokens)
parse(toks) ==
    /\ calls < MaxCalls
    /\ \E o \in {ParseOutcome(toks, errors)} :
         /\ errors' = o.errors
         /\ outcome' = o.outcome
    /\ tokens' = toks
    /\ start' = 0
    /\ calls' = calls + 1

Next == \E kinds \in SessionInputs : parse(Lex(kinds))

\* One Parser object, parse called on it again and again.
Spec == Init /\ [][Next]_vars

\* A freshly constructed Parser and the token list it is about to parse.
InitParse ==
    /\ tokens \in {Lex(kinds) : kinds \in Programs}
    /\ start = 0
    /\ errors = <<>>
    /\ outcome = NotCalled
    /\ calls = 0

NextParse == calls = 0 /\ parse(tokens)

SpecParse == InitParse /\ [][NextParse]_vars

\* A recognizer called directly at an index of a token list.
Recognized(fn, result, stack) ==
    /\ calls = 0
    /\ \E r \in {result} :
         /\ errors' = errors \o r.errs
         /\ outcome' = Outcome(fn, r.node, r.index, FALSE, NoError, 0,
                               Len(errors), stack)
    /\ calls' = 1
    /\ UNCHANGED <<tokens, start>>

call_expect_main == Recognized("expect_main", expect_main(tokens, start), <<>>)

call_expect_statement ==
    Recognized("expect_statement", expect_statement(tokens, start), <<>>)

call_expect_return ==
    Recognized("expect_return", expect_return(tokens, start), <<>>)

call_expect_expr_statement ==
    Recognized("expect_expr_statement", expect_expr_statement(tokens, start),
               <<>>)

call_expect_declaration ==
    Recognized("expect_declaration", expect_declaration(tokens, start), <<>>)

call_expect_expression ==
    Recognized("expect_expression", expect_expression(tokens, start),
               ScanLoop(tokens, <<>>, start).stack)

\* The node handed to expect_semicolon by the caller.
SomeNode == DeclarationNode([kind |-> "identifier", pos |-> 0])

call_expect_semicolon ==
    Recognized("expect_semicolon", expect_semicolon(SomeNode, tokens, start),
               <<>>)

InitRecognize ==
    /\ tokens \in {Lex(kinds) : kinds \in RecognizerInputs}
    /\ start \in 0..Len(tokens)
    /\ errors = <<>>
    /\ outcome = NotCalled
    /\ calls = 0

NextRecognize ==
    \/ call_expect_main
    \/ call_expect_statement
    \/ call_expect_return
    \/ call_expect_expr_statement
    \/ call_expect_declaration
    \/ call_expect_expression
    \/ call_expect_semicolon

SpecRecognize == InitRecognize /\ [][NextRecognize]_vars

---------------------------------------------------------------------------
(* Vocabulary of the properties *)

Kinds(toks) == [j \in DOMAIN toks |-> toks[j].kind]

Recognizers == {"expect_main", "expect_statement", "expect_return",
                "expect_expr_statement", "expect_declaration",
                "expect_expression", "expect_semicolon"}

\* The entries of self.errors appended by the call that produced outcome.
Recorded == SubSeq(errors, outcome.base + 1, Len(errors))

\* A well-formed expression: leaves separated by binary operators.
WellFormed(kinds) ==
    /\ Len(kinds) % 2 = 1
    /\ \A j \in 1..Len(kinds) :
         IF j % 2 = 1 THEN kinds[j] \in Leaves ELSE kinds[j] \in Operators

\* A statement or declaration without its semicolon.
ValidStatement(kinds) ==
    \/ kinds = <<"int_kw", "identifier">>
    \/ kinds # <<>> /\ kinds[1] = "return_kw" /\ WellFormed(Tail(kinds))
    \/ WellFormed(kinds)

\* The k-th statement of a body (without its semicolon): what lies between
\* the (k-1)-th and the k-th semicolon.
SemicolonsBefore(body, j) ==
    Cardinality({i \in 1..(j - 1) : body[i].kind = "semicolon"})

Segment(body, k) ==
    SelectSeq(body, LAMBDA t : t.kind # "semicolon"
                               /\ SemicolonsBefore(body, t.pos - 4) = k - 1)

NumStatements(body) == SemicolonsBefore(body, Len(body) + 1)

\* The tokens between the opening and the closing brace of a program.
Body(toks) == SubSeq(toks, 6, Len(toks) - 1)

\* A valid program of the supported grammar.
ValidProgram(toks) ==
    /\ Len(toks) >= 6
    /\ Kinds(SubSeq(toks, 1, 5)) = KindsBefore
    /\ toks[Len(toks)].kind = "close_brack"
    /\ Body(toks) # <<>> => toks[Len(toks) - 1].kind = "semicolon"
    /\ \A k \in 1..NumStatements(Body(toks)) :
         ValidStatement(Kinds(Segment(Body(toks), k)))

\* The tokens a node was built from, in the order of the tree.
RECURSIVE Flatten(_)
Flatten(node) ==
    CASE node.type = "Number" -> <<node.tok>>
      [] node.type = "Identifier" -> <<node.tok>>
      [] node.type = "BinaryOperator" ->
           Flatten(node.left) \o <<node.op>> \o Flatten(node.right)
      [] node.type = "Return" -> Flatten(node.expr)
      [] node.type = "ExprStatement" -> Flatten(node.expr)
      [] node.type = "Declaration" -> <<node.name>>

\* The node a statement (without its semicolon) must become: its type, and
\* the tokens under it.
ChildMatches(child, seg) ==
    CASE seg[1].kind = "return_kw" ->
           child.type = "Return" /\ Flatten(child) = Tail(seg)
      [] seg[1].kind = "int_kw" ->
           child.type = "Declaration" /\ Flatten(child) = Tail(seg)
      [] OTHER ->
           child.type = "ExprStatement" /\ Flatten(child) = seg

\* The tree the operator table gives a well-formed expression: the loosest
\* operator is the root; among assignments the leftmost one (they nest to
\* the right), among additions or multiplications the rightmost one (they
\* nest to the left).
PositionsOf(seg, kind) == {j \in 1..Len(seg) : seg[j].kind = kind}

Leftmost(S) == CHOOSE j \in S : \A i \in S : j <= i

Rightmost(S) == CHOOSE j \in S : \A i \in S : j >= i

RootPosition(seg) ==
    IF PositionsOf(seg, "equals") # {} THEN Leftmost(PositionsOf(seg, "equals"))
    ELSE IF PositionsOf(seg, "plus") # {}
         THEN Rightmost(PositionsOf(seg, "plus"))
         ELSE Rightmost(PositionsOf(seg, "star"))

RECURSIVE TableTree(_)
TableTree(seg) ==
    IF Len(seg) = 1
    THEN IF seg[1].kind = "number" THEN NumberNode(seg[1])
         ELSE IdentifierNode(seg[1])
    ELSE LET r == RootPosition(seg) IN
         BinaryOperatorNode(TableTree(SubSeq(seg, 1, r - 1)), seg[r],
                            TableTree(SubSeq(seg, r + 1, Len(seg))))

\* The longest run of number, identifier and operator tokens from index i.
RECURSIVE ExprRun(_, _)
ExprRun(toks, i) ==
    IF i < Len(toks) /\ At(toks, i).kind \in Leaves \cup Operators
    THEN <<At(toks, i)>> \o ExprRun(toks, i + 1)
    ELSE <<>>

\* The greatest failure index recorded in self.errors.
GreatestIndex == CHOOSE m \in {errors[j].index : j \in 1..Len(errors)} :
                    \A j \in 1..Len(errors) : errors[j].index <= m

\* Whether the prologue fails to match at index i, and the index of the
\* first token that diverges from it (the end of the list if it is short).
PrologueMismatch(toks, i) ==
    \E j \in 1..5 : i + j > Len(toks) \/ toks[i + j].kind # KindsBefore[j]

FirstDivergent(toks, i) ==
    i - 1 + Leftmost({j \in 1..5 :
                        i + j > Len(toks) \/ toks[i + j].kind # KindsBefore[j]})

---------------------------------------------------------------------------
(* Properties *)

\* C1: for every valid program of the supported grammar, parse succeeds,
\* returns a Main node whose children are the statements and declarations in
\* source order, and expect_main consumed every token.
C1_ValidProgramsParse ==
    (outcome.fn = "parse" /\ ValidProgram(tokens)) =>
        /\ ~ outcome.raised
        /\ outcome.node.type = "Main"
        /\ outcome.index = Len(tokens)
        /\ Len(outcome.node.nodes) = NumStatements(Body(tokens))
        /\ \A k \in 1..Len(outcome.node.nodes) :
             ChildMatches(outcome.node.nodes[k], Segment(Body(tokens), k))

\* A valid program with two statements, a declaration and the return of a
\* binary expression, has been parsed.
C1_Witness ==
    /\ outcome.fn = "parse"
    /\ ValidProgram(tokens)
    /\ ~ outcome.raised
    /\ Len(outcome.node.nodes) = 2
    /\ outcome.node.nodes[1].type = "Declaration"
    /\ outcome.node.nodes[2].type = "Return"
    /\ outcome.node.nodes[2].expr.type = "BinaryOperator"

\* C2: for every well-formed expression, the tree expect_expression builds is
\* the one the operator table gives (* over + over =, = nesting to the right,
\* + and * to the left), and the whole expression is consumed.
C2_TreeFollowsOperatorTable ==
    (outcome.fn = "expect_expression"
       /\ WellFormed(Kinds(ExprRun(tokens, start)))) =>
        /\ outcome.node = TableTree(ExprRun(tokens, start))
        /\ outcome.index = start + Len(ExprRun(tokens, start))
        /\ Recorded = <<>>

\* x = 1 + 2 * 3 has been parsed into Assign(x, Add(1, Mul(2, 3))).
C2_Witness ==
    /\ outcome.fn = "expect_expression"
    /\ start = 0
    /\ Kinds(tokens) = <<"identifier", "equals", "number", "plus", "number",
                         "star", "number">>
    /\ outcome.node =
         BinaryOperatorNode(
             IdentifierNode(tokens[1]), tokens[2],
             BinaryOperatorNode(
                 NumberNode(tokens[3]), tokens[4],
                 BinaryOperatorNode(NumberNode(tokens[5]), tokens[6],
                                    NumberNode(tokens[7]))))

\* C3: whenever expect_main fails, the error parse raises is a recorded error
\* whose failure index is the greatest of all errors recorded so far, and
\* among the recorded errors with that index it is the one recorded last.
C3_FarthestLatestError ==
    (outcome.fn = "parse" /\ outcome.node = None) =>
        /\ outcome.raised
        /\ outcome.picked \in 1..Len(errors)
        /\ outcome.error = errors[outcome.picked].err
        /\ errors[outcome.picked].index = GreatestIndex
        /\ \A j \in (outcome.picked + 1)..Len(errors) :
             errors[j].index < GreatestIndex

\* A failed parse selected an error that has both an earlier error with the
\* same (greatest) index and a later error with a smaller index.
C3_Witness ==
    /\ outcome.fn = "parse"
    /\ outcome.node = None
    /\ \E j \in 1..(outcome.picked - 1) :
         errors[j].index = errors[outcome.picked].index
    /\ \E j \in (outcome.picked + 1)..Len(errors) :
         errors[j].index < errors[outcome.picked].index

\* C4: the error a failing parse raises is one recorded during that same
\* call; errors recorded by an earlier call are never selected.
C4_ErrorsOfThisCallOnly ==
    (outcome.fn = "parse" /\ outcome.node = None) =>
        outcome.picked > outcome.base

\* C5: when a statement or declaration of the body is complete but for its
\* semicolon, parse fails and raises the 'expected semicolon' error in AFTER
\* style, against the token just before the position of the semicolon.
C5_MissingSemicolon ==
    \A j \in 1..Len(Recorded) :
        (outcome.fn = "parse" /\ Recorded[j].err.msg = "expected semicolon") =>
            /\ outcome.raised
            /\ outcome.error =
                 CompilerError("expected semicolon", "after",
                               At(tokens, Recorded[j].index - 1))

\* C5 on a freshly constructed Parser (SpecParse).
C5_MissingSemicolonFirstCall == outcome.base = 0 => C5_MissingSemicolon

\* C6: whenever expect_main succeeds but returns an index smaller than
\* len(tokens), parse does not return the node: it raises 'unexpected token'
\* at the first leftover token.
C6_LeftoverTokens ==
    (outcome.fn = "parse" /\ outcome.node # None
       /\ outcome.index < Len(tokens)) =>
        /\ outcome.raised
        /\ outcome.error = CompilerError("unexpected token", "at",
                                         At(tokens, outcome.index))

\* A well-formed main function followed by a stray token has been parsed.
C6_Witness ==
    /\ outcome.fn = "parse"
    /\ outcome.node # None
    /\ outcome.index < Len(tokens)
    /\ outcome.raised
    /\ outcome.error.msg = "unexpected token"

\* C7: parse ends by returning a Main node or by raising one syntax error
\* (never an indexing fault or a selection from an empty list), and for the
\* empty token list the error is 'expected main function starting at
\* beginning of source'.
C7_TotalAndEmptyInput ==
    outcome.fn = "parse" =>
        /\ IF outcome.raised
           THEN outcome.error.msg \notin {"IndexError", "ValueError", "none"}
           ELSE outcome.node.type = "Main"
        /\ tokens = <<>> =>
             /\ outcome.raised
             /\ outcome.error =
                  CompilerError("expected main function starting",
                                "at beginning of source", NoToken)

\* C7 on a freshly constructed Parser (SpecParse).
C7_TotalAndEmptyInputFirstCall == outcome.base = 0 => C7_TotalAndEmptyInput

\* C8 (as stated): expect_expression succeeds only when its stack has
\* collapsed to exactly one expression node; otherwise it returns the failure
\* sentinel and records an 'expected expression' error.
C8_SucceedsOnlyWhenCollapsed ==
    outcome.fn = "expect_expression" =>
        /\ outcome.node # None <=>
             (Len(outcome.stack) = 1 /\ IsNode(outcome.stack[1].item))
        /\ outcome.node = None =>
             /\ Len(Recorded) = 1
             /\ Recorded[1].err.msg = "expected expression"

\* C8 (amended): expect_expression succeeds exactly when its stack is not
\* empty and the bottom item is an expression node, which is exactly when the
\* token at the start index is a number or an identifier; items may remain
\* above the bottom one, and the result is the bottom node and the tokens it
\* spans.  Otherwise it returns (None, 0) and records one 'expected
\* expression' error at the start index.
C8_SucceedsWhenBottomIsNode ==
    outcome.fn = "expect_expression" =>
        /\ outcome.node # None <=>
             (outcome.stack # <<>> /\ IsNode(outcome.stack[1].item))
        /\ outcome.node # None <=>
             (start < Len(tokens) /\ At(tokens, start).kind \in Leaves)
        /\ outcome.node # None =>
             /\ outcome.node = outcome.stack[1].item
             /\ outcome.index = start + outcome.stack[1].length
             /\ Recorded = <<>>
        /\ outcome.node = None =>
             /\ outcome.index = 0
             /\ Len(Recorded) = 1
             /\ Recorded[1].err.msg = "expected expression"
             /\ Recorded[1].index = start

\* An operand followed by an operator with no right operand (1 + ;): the
\* stack holds two items and expect_expression succeeded with the operand.
C8_Witness ==
    /\ outcome.fn = "expect_expression"
    /\ Kinds(Slice(tokens, start)) = <<"number", "plus", "semicolon">>
    /\ Len(outcome.stack) = 2
    /\ outcome.node = NumberNode(At(tokens, start))
    /\ outcome.index = start + 1

\* C9: a successful recognizer call started at index s returns an index n
\* with s < n <= len(tokens); a failed call returns (None, 0).
C9_Progress ==
    outcome.fn \in Recognizers =>
        IF outcome.node # None
        THEN start < outcome.index /\ outcome.index <= Len(tokens)
        ELSE outcome.index = 0

\* expect_semicolon succeeded at the last token of a list, past its start.
C9_Witness ==
    /\ outcome.fn = "expect_semicolon"
    /\ outcome.node # None
    /\ start > 0
    /\ outcome.index = Len(tokens)

\* C10 (as stated): when the prologue does not match, expect_main records
\* exactly one error, at the index of the first token that diverges from the
\* prologue.
C10_ErrorAtFirstDivergentToken ==
    (outcome.fn = "expect_main" /\ PrologueMismatch(tokens, start)) =>
        /\ Len(Recorded) = 1
        /\ Recorded[1].index = FirstDivergent(tokens, start)

\* C10 (amended): when the prologue does not match, expect_main returns
\* (None, 0) and records exactly one error, 'expected main function
\* starting', at the start index, wherever the prologue diverges.
C10_ErrorAtStartIndex ==
    (outcome.fn = "expect_main" /\ PrologueMismatch(tokens, start)) =>
        /\ outcome.node = None
        /\ Len(Recorded) = 1
        /\ Recorded[1].index = start
        /\ Recorded[1].err.msg = "expected main function starting"

\* int main ( { : the prologue diverges at index 3 and the error is recorded
\* at index 0.
C10_Witness ==
    /\ outcome.fn = "expect_main"
    /\ start = 0
    /\ Kinds(tokens) = <<"int_kw", "main", "open_paren", "open_brack",
                         "open_brack", "close_brack">>
    /\ FirstDivergent(tokens, start) = 3
    /\ Recorded[1].index = 0

=============================================================================
